---- MODULE Spec2Model ----
(***************************************************************************)
(* The port-memoized SSH connection workflow of src/index.js:              *)
(* loadPortConfigs / savePortConfig (the port store, ~/.ssh_ports.json),   *)
(* trySSHConnection (one spawned ssh process and its classification),      *)
(* promptForPort (the validated port prompt) and the negotiation closure   *)
(* of sshIntoServer that ties them together.                               *)
(***************************************************************************)
EXTENDS Integers, Sequences, FiniteSets, TLC

VARIABLES
    file,        \* content of ~/.ssh_ports.json
    file0,       \* content of the file when sshIntoServer was entered
    ipAddress,   \* sshIntoServer's ipAddress argument
    pc,          \* position of the negotiation closure
    port,        \* sshIntoServer's `let port`
    started,     \* number of ssh processes spawned so far
    attempts,    \* terminated connection attempts, oldest first
    answer,      \* text last submitted to the port prompt (after the default is applied)
    rejected,    \* number of inputs the port prompt has rejected
    saves,       \* calls of savePortConfig, oldest first
    log,         \* operator-visible messages, oldest first
    inflight,    \* what savePortConfig has loaded and not yet written back
    other        \* savePortConfig running in another invocation of the program

vars == <<file, file0, ipAddress, pc, port, started, attempts, answer, rejected, saves, log,
          inflight, other>>

----------------------------------------------------------------------------
(* Bounds of the model *)

\* longest text the operator types at the port prompt (besides the sample inputs)
MaxInputLen == 2
\* number of rejected inputs after which the operator stops typing invalid text
MaxRejected == 2

(* Program constants *)

defaultPort == 22
ConnectionErrorStatus == 255
PortLimit == 65536

----------------------------------------------------------------------------
(* JavaScript / JSON values that can stand where a port is expected *)

JNum(n) == [t |-> "num", n |-> n]
\* a non-empty, non-numeric JSON string such as "abc"
JStr == [t |-> "str", n |-> 0]
\* JavaScript undefined: the result of reading a missing property
Undefined == [t |-> "undef", n |-> 0]

\* JavaScript truthiness, as used by ||
Truthy(v) == \/ v.t = "str"
             \/ v.t = "num" /\ v.n # 0

Hosts == {"h1", "h2"}

\* values a hand-edited or program-written store can hold for a host
StoredValues == {Undefined, JNum(0), JNum(2200), JNum(70000), JStr}

NoEntries == [h \in Hosts |-> Undefined]

\* Contents of the store file.  kind "absent": no file; "unreadable": a file that
\* readFileSync cannot read or whose text JSON.parse rejects; "null", "array",
\* "prim": valid JSON that is no object; "object": a JSON object, map giving each
\* host's property (Undefined when it has none).
FileContents ==
    {[kind |-> k, map |-> NoEntries] : k \in {"absent", "unreadable", "null", "array", "prim"}}
    \cup {[kind |-> "object", map |-> m] : m \in [Hosts -> StoredValues]}

----------------------------------------------------------------------------
(* Port Store *)

\* loadPortConfigs as it would be without its final `return {}`: undefined is
\* returned, which throws on a property access as null does
loadPortConfigs_NoFallback(f) ==
    IF f.kind \in {"absent", "unreadable"}
    THEN [value |-> [kind |-> "null", map |-> NoEntries], error |-> f.kind = "unreadable"]
    ELSE [value |-> [kind |-> f.kind, map |-> f.map], error |-> FALSE]

\* loadPortConfigs(): the value returned and whether the catch branch logged
loadPortConfigs(f) ==
    IF f.kind = "absent"
    THEN [value |-> [kind |-> "object", map |-> NoEntries], error |-> FALSE]
    ELSE IF f.kind = "unreadable"
    THEN [value |-> [kind |-> "object", map |-> NoEntries], error |-> TRUE]
    ELSE [value |-> [kind |-> f.kind, map |-> f.map], error |-> FALSE]

\* configs[ip]: property read on a loaded value (null has no properties: TypeError)
GetProp(configs, ip) == IF configs.kind = "object" THEN configs.map[ip] ELSE Undefined

\* configs[ip] = port followed by JSON.stringify(configs, null, 2): what the
\* written text holds.  A property set on an array is not serialized, and an
\* assignment to a property of a primitive is dropped (the file is not strict).
SetAndStringify(configs, ip, p) ==
    IF configs.kind = "object"
    THEN [kind |-> "object", map |-> [configs.map EXCEPT ![ip] = p]]
    ELSE configs

\* How writeFileSync(configPath, text) can end.  "ok": the text is written.
\* "openFails": it throws before the file is touched (no permission, read-only
\* file system).  "writeFails": it throws after the file was opened with flag
\* 'w', which truncates it (disk full, I/O error): a cut-off text is left.
WriteOutcomes == {"ok", "openFails", "writeFails"}

Truncated == [kind |-> "unreadable", map |-> NoEntries]

\* savePortConfig after its loadPortConfigs() returned `loaded`: the file
\* afterwards (f: the file as it is now) and whether the catch branch logged
WriteBack(f, loaded, ip, p, w) ==
    IF loaded.value.kind = "null"
    THEN [file |-> f, loadError |-> loaded.error, saveError |-> TRUE]
    ELSE IF w = "openFails"
    THEN [file |-> f, loadError |-> loaded.error, saveError |-> TRUE]
    ELSE IF w = "writeFails"
    THEN [file |-> Truncated, loadError |-> loaded.error, saveError |-> TRUE]
    ELSE [file |-> SetAndStringify(loaded.value, ip, p),
          loadError |-> loaded.error, saveError |-> FALSE]

\* savePortConfig(ip, port), run without another process touching the file
savePortConfig(f, ip, p, w) == WriteBack(f, loadPortConfigs(f), ip, p, w)

----------------------------------------------------------------------------
(* Text typed at the port prompt: a sequence of one-character strings *)

Alphabet == {"0", "2", "-", "a"}

RECURSIVE TextsOfLen(_)
TextsOfLen(n) ==
    IF n = 0 THEN {<<>>}
    ELSE {Append(s, c) : s \in TextsOfLen(n - 1), c \in Alphabet}

\* the inputs the specification's validation examples name, a hexadecimal one and
\* one with leading white space
SampleInputs ==
    { <<"0">>, <<"6", "5", "5", "3", "6">>, <<"-", "1">>, <<"a", "b", "c">>,
      <<"2", "2">>, <<"2", "2", "2", "2">>, <<"6", "5", "5", "3", "5">>,
      <<"2", "2", "0", "0">>, <<"0", "x", "1", "6">>, <<" ", "2", "2">> }

Inputs == SampleInputs \cup UNION {TextsOfLen(n) : n \in 0..MaxInputLen}

\* value of a character as a digit (99: not a digit in any radix up to 16)
DigitVal(c) ==
    CASE c = "0" -> 0 [] c = "1" -> 1 [] c = "2" -> 2 [] c = "3" -> 3
      [] c = "4" -> 4 [] c = "5" -> 5 [] c = "6" -> 6 [] c = "7" -> 7
      [] c = "8" -> 8 [] c = "9" -> 9 [] c = "a" -> 10 [] c = "b" -> 11
      [] c = "c" -> 12 [] c = "d" -> 13 [] c = "e" -> 14 [] c = "f" -> 15
      [] OTHER -> 99

RECURSIVE StripLeadingSpace(_)
StripLeadingSpace(s) ==
    IF s # <<>> /\ Head(s) = " " THEN StripLeadingSpace(Tail(s)) ELSE s

\* number of leading characters of s that are digits in the radix
RECURSIVE DigitPrefixLen(_, _)
DigitPrefixLen(s, radix) ==
    IF s # <<>> /\ DigitVal(Head(s)) < radix
    THEN 1 + DigitPrefixLen(Tail(s), radix)
    ELSE 0

\* value of the digit string s in the radix, most significant digit first
RECURSIVE DigitsValue(_, _)
DigitsValue(s, radix) ==
    IF s = <<>> THEN 0
    ELSE DigitsValue(SubSeq(s, 1, Len(s) - 1), radix) * radix + DigitVal(s[Len(s)])

\* JavaScript parseInt(s) without a radix: leading white space is skipped, a sign
\* is read, "0x" selects radix 16, and the longest prefix of digits is the value;
\* what follows the digits is ignored.  nan = TRUE is NaN.
parseInt(s) ==
    LET t == StripLeadingSpace(s)
        signed == t # <<>> /\ Head(t) \in {"-", "+"}
        neg == t # <<>> /\ Head(t) = "-"
        u == IF signed THEN Tail(t) ELSE t
        hex == Len(u) >= 2 /\ u[1] = "0" /\ u[2] \in {"x", "X"}
        radix == IF hex THEN 16 ELSE 10
        d == IF hex THEN SubSeq(u, 3, Len(u)) ELSE u
        k == DigitPrefixLen(d, radix)
        v == DigitsValue(SubSeq(d, 1, k), radix)
    IN  IF k = 0 THEN [nan |-> TRUE, n |-> 0]
        ELSE [nan |-> FALSE, n |-> IF neg THEN 0 - v ELSE v]

\* the prompt's validate callback; a comparison with NaN is false
validate(input) ==
    LET p == parseInt(input)
    IN  ~p.nan /\ p.n > 0 /\ p.n < PortLimit

\* the prompt's `default`: an empty line is answered with String(defaultPort)
DefaultText == <<"2", "2">>
filterInput(input) == IF input = <<>> THEN DefaultText ELSE input

\* what the prompt does with each line the operator can submit: the text it
\* validates, validate's verdict, and the value promptForPort returns for it
PromptResult ==
    [input \in Inputs |->
        [answer |-> filterInput(input),
         valid |-> validate(filterInput(input)),
         port |-> parseInt(filterInput(input)).n]]

----------------------------------------------------------------------------
(* Connection attempt *)

JNull == [t |-> "null", n |-> 0]

\* `code` of the 'close' event: an exit status, or null when a signal ended ssh
ExitCodes == {JNum(0), JNum(1), JNum(ConnectionErrorStatus), JNull}

\* Classify as it would be were only a clean exit taken for a session
Classify_OnlyZero(code) == code.t = "num" /\ code.n = 0

\* the 'close' handler's test: what trySSHConnection resolves to
Classify(code) == ~(code.t = "num" /\ code.n = ConnectionErrorStatus)

----------------------------------------------------------------------------
(* Negotiation *)

\* StartPort as it would be were the loaded store ignored
StartPort_AlwaysDefault(configs, ip) == JNum(defaultPort)

\* let port = portConfigs[ipAddress] || defaultPort
StartPort(configs, ip) ==
    IF Truthy(GetProp(configs, ip)) THEN GetProp(configs, ip) ELSE JNum(defaultPort)

\* NegotiationNext as it would be were the retry a loop (while (!success))
NegotiationNext_Loop(n, success) == IF success THEN "succeeded" ELSE "prompting"

\* NegotiationNext as it would be were the first result not tested
NegotiationNext_AlwaysRetry(n, success) ==
    IF n = 1 THEN "prompting"
    ELSE IF success THEN "succeeded"
    ELSE "gaveUp"

\* NegotiationNext as it would be were the second promise left unsettled on a
\* failure: the closure stays suspended at its await
NegotiationNext_Hang(n, success) ==
    IF success THEN "succeeded"
    ELSE IF n = 1 THEN "prompting"
    ELSE "suspended"

\* where the closure goes once attempt number n has resolved to success
NegotiationNext(n, success) ==
    IF success THEN "succeeded"
    ELSE IF n = 1 THEN "prompting"
    ELSE "gaveUp"

\* ShouldSave as it would be were the `if (success)` around the save missing
ShouldSave_Unconditional(n, success) == n > 1

\* ShouldSave as it would be were the save moved out of the `if (!success)` block
ShouldSave_AnySuccess(n, success) == success

\* whether the closure calls savePortConfig once attempt number n has resolved
ShouldSave(n, success) == n > 1 /\ success

\* no savePortConfig of this run is between its load and its write
NotSaving == [active |-> FALSE, value |-> [kind |-> "object", map |-> NoEntries],
              error |-> FALSE, before |-> [kind |-> "absent", map |-> NoEntries]]

\* the other invocation has not reached its savePortConfig
OtherIdle == [pc |-> "idle", ip |-> "h1", port |-> Undefined,
              loaded |-> [value |-> [kind |-> "object", map |-> NoEntries], error |-> FALSE],
              failed |-> FALSE, after |-> 0]

Init ==
    /\ file \in FileContents
    /\ file0 = file
    /\ ipAddress \in Hosts
    /\ pc = "idle"
    /\ port = Undefined
    /\ started = 0
    /\ attempts = <<>>
    /\ answer = <<>>
    /\ rejected = 0
    /\ saves = <<>>
    /\ log = <<>>
    /\ inflight = NotSaving
    /\ other = OtherIdle

\* sshIntoServer up to the first await: load the store, pick the port, spawn ssh.
\* Reading a property of null throws a TypeError out of sshIntoServer.
SshIntoServer ==
    /\ pc = "idle"
    /\ LET loaded == loadPortConfigs(file)
           errs == IF loaded.error THEN <<"loadError">> ELSE <<>>
       IN  IF loaded.value.kind = "null"
           THEN /\ pc' = "crashed"
                /\ log' = log \o errs \o <<"uncaughtTypeError">>
                /\ UNCHANGED <<port, started>>
           ELSE /\ pc' = "attempting"
                /\ port' = StartPort(loaded.value, ipAddress)
                /\ started' = 1
                /\ log' = log \o errs \o <<"attempting">>
    /\ file0' = file
    /\ UNCHANGED <<file, ipAddress, attempts, answer, rejected, saves, inflight, other>>

\* trySSHConnection's promise resolves to success and the closure runs on to its
\* next await or to its end.  msgs: what the resolving handler printed.
Resolved(success, ending, code, msgs) ==
    /\ attempts' = Append(attempts, [port |-> port, success |-> success,
                                     ending |-> ending, code |-> code])
    /\ pc' = NegotiationNext(started, success)
    /\ IF ShouldSave(started, success)
       THEN \E w \in WriteOutcomes :
              LET r == savePortConfig(file, ipAddress, port, w)
              IN  /\ file' = r.file
                  /\ saves' = Append(saves, [ip |-> ipAddress, port |-> port,
                                             before |-> file, atLoad |-> file,
                                             after |-> r.file, failed |-> r.saveError])
                  /\ log' = log \o msgs
                              \o (IF r.loadError THEN <<"loadError">> ELSE <<>>)
                              \o (IF r.saveError THEN <<"saveError">> ELSE <<>>)
                              \o <<"portSaved">>
       ELSE /\ log' = log \o msgs
                        \o (IF NegotiationNext(started, success) = "prompting"
                            THEN <<"connectionFailed">> ELSE <<>>)
            /\ UNCHANGED <<file, saves>>
    /\ UNCHANGED <<file0, ipAddress, port, started, answer, rejected, inflight, other>>

\* the spawned process's 'close' event
OnClose ==
    /\ pc = "attempting"
    /\ \E code \in ExitCodes :
         Resolved(Classify(code), "close", code,
                  IF Classify(code) THEN <<"sessionEnded">> ELSE <<>>)

\* the spawned process's 'error' event: ssh could not be started
OnError ==
    /\ pc = "attempting"
    /\ Resolved(FALSE, "error", Undefined, <<"launchError">>)

\* the operator submits a line the prompt accepts: promptForPort returns and the
\* closure spawns the next attempt
PromptAcceptFrom(texts) ==
    /\ pc = "prompting"
    /\ \E input \in texts :
         /\ PromptResult[input].valid
         /\ answer' = PromptResult[input].answer
         /\ port' = JNum(PromptResult[input].port)
    /\ started' = started + 1
    /\ pc' = "attempting"
    /\ log' = Append(log, "attempting")
    /\ UNCHANGED <<file, file0, ipAddress, attempts, rejected, saves, inflight, other>>

\* PromptAccept as it would be were the first trySSHConnection not awaited: the
\* prompt is answered while the ssh process runs
PromptAccept_NoAwait ==
    /\ pc \in {"prompting", "attempting"}
    /\ \E input \in Inputs :
         /\ PromptResult[input].valid
         /\ answer' = PromptResult[input].answer
         /\ port' = JNum(PromptResult[input].port)
    /\ started' = started + 1
    /\ pc' = "attempting"
    /\ log' = Append(log, "attempting")
    /\ UNCHANGED <<file, file0, ipAddress, attempts, rejected, saves, inflight, other>>

PromptAccept == PromptAcceptFrom(Inputs)

\* the operator submits a line the prompt rejects: the message is shown and the
\* prompt stays open
PromptReject ==
    /\ pc = "prompting"
    /\ rejected < MaxRejected
    /\ \E input \in Inputs :
         /\ ~PromptResult[input].valid
         /\ answer' = PromptResult[input].answer
    /\ rejected' = rejected + 1
    /\ log' = Append(log, "invalidPort")
    /\ UNCHANGED <<file, file0, ipAddress, pc, port, started, attempts, saves,
                   inflight, other>>

Next ==
    \/ SshIntoServer
    \/ OnClose
    \/ OnError
    \/ PromptAccept
    \/ PromptReject

Spec == Init /\ [][Next]_vars

\* The environment the closure waits for: a spawned process ends ('close' or
\* 'error' is emitted), and the operator at the prompt submits a valid port.
Fairness ==
    /\ WF_vars(SshIntoServer)
    /\ WF_vars(OnClose \/ OnError)
    /\ WF_vars(PromptAccept)

LiveSpec == Spec /\ Fairness

----------------------------------------------------------------------------
(* Two invocations sharing ~/.ssh_ports.json.  savePortConfig is two file
   operations, readFileSync inside loadPortConfigs and writeFileSync, with no
   lock around them, so another process can read or write the file between
   them.  The other invocation is reduced to its savePortConfig call. *)

\* SaveSource as it would be were the mapping built from the portConfigs that
\* sshIntoServer loaded when the run began
SaveSource_Snapshot(current, snapshot) == snapshot

\* the file content savePortConfig's own loadPortConfigs() reads: the file as it
\* is when the save begins, not what sshIntoServer read at the start
SaveSource(current, snapshot) == current

\* ports the other invocation saves
OtherPorts == {JNum(2222), JNum(2200)}

\* 'close' of an attempt after which nothing is saved
OnCloseNoSave ==
    /\ pc = "attempting"
    /\ \E code \in ExitCodes :
         /\ ~ShouldSave(started, Classify(code))
         /\ Resolved(Classify(code), "close", code,
                     IF Classify(code) THEN <<"sessionEnded">> ELSE <<>>)

\* 'close' of a successful retry, up to and including the loadPortConfigs()
\* call inside savePortConfig
CloseThenLoad ==
    /\ pc = "attempting"
    /\ \E code \in ExitCodes :
         /\ ShouldSave(started, Classify(code))
         /\ attempts' = Append(attempts, [port |-> port, success |-> Classify(code),
                                          ending |-> "close", code |-> code])
    /\ LET loaded == loadPortConfigs(SaveSource(file, file0))
       IN  /\ inflight' = [active |-> TRUE, value |-> loaded.value,
                           error |-> loaded.error, before |-> file]
           /\ log' = log \o <<"sessionEnded">>
                         \o (IF loaded.error THEN <<"loadError">> ELSE <<>>)
    /\ pc' = "saving"
    /\ UNCHANGED <<file, file0, ipAddress, port, started, answer, rejected, saves, other>>

\* the rest of savePortConfig, the assignment and writeFileSync, and the rest of
\* the closure
SaveWrite ==
    /\ pc = "saving"
    /\ \E w \in WriteOutcomes :
         LET r == WriteBack(file, [value |-> inflight.value, error |-> inflight.error],
                            ipAddress, port, w)
         IN  /\ file' = r.file
             /\ saves' = Append(saves, [ip |-> ipAddress, port |-> port,
                                        before |-> file, atLoad |-> inflight.before,
                                        after |-> r.file, failed |-> r.saveError])
             /\ log' = log \o (IF r.saveError THEN <<"saveError">> ELSE <<>>)
                           \o <<"portSaved">>
    /\ pc' = "succeeded"
    /\ inflight' = NotSaving
    /\ UNCHANGED <<file0, ipAddress, port, started, attempts, answer, rejected, other>>

\* the other invocation's savePortConfig(ip, p) reads the file
OtherLoad ==
    /\ other.pc = "idle"
    /\ \E h \in Hosts, p \in OtherPorts :
         other' = [other EXCEPT !.pc = "loaded", !.ip = h, !.port = p,
                                !.loaded = loadPortConfigs(file)]
    /\ UNCHANGED <<file, file0, ipAddress, pc, port, started, attempts, answer,
                   rejected, saves, log, inflight>>

\* the other invocation's savePortConfig writes the file; after: how many saves
\* of this run had written before it
OtherWrite ==
    /\ other.pc = "loaded"
    /\ \E w \in WriteOutcomes :
         LET r == WriteBack(file, other.loaded, other.ip, other.port, w)
         IN  /\ file' = r.file
             /\ other' = [other EXCEPT !.pc = "done", !.failed = r.saveError,
                                       !.after = Len(saves)]
    /\ UNCHANGED <<file0, ipAddress, pc, port, started, attempts, answer,
                   rejected, saves, log, inflight>>

\* the operator answers the prompt with one of the sample lines
PromptAcceptSample == PromptAcceptFrom(SampleInputs)

RaceNext ==
    \/ SshIntoServer
    \/ OnCloseNoSave
    \/ OnError
    \/ PromptAcceptSample
    \/ CloseThenLoad
    \/ SaveWrite
    \/ OtherLoad
    \/ OtherWrite

SpecRace == Init /\ [][RaceNext]_vars

----------------------------------------------------------------------------
(* Properties *)

Terminal == pc \in {"succeeded", "gaveUp"}

SomeSuccess == \E j \in DOMAIN attempts : attempts[j].success

\* the mapping a load() of the current file yields
Stored(f, h) == GetProp(loadPortConfigs(f).value, h)

\* C1: every call of savePortConfig, and so every write of the store, is for the
\* run's host and for a port on which an attempt of this run has already ended
\* in Success; the file never differs from its initial content without a save.
C1_SaveOnlyAfterSuccess ==
    /\ \A i \in DOMAIN saves :
         /\ saves[i].ip = ipAddress
         /\ \E j \in DOMAIN attempts :
              /\ attempts[j].port = saves[i].port
              /\ attempts[j].success
    /\ (file # file0 => saves # <<>>)

C1_Witness ==
    /\ saves # <<>>
    /\ file # file0
    /\ Stored(file, ipAddress) = port

\* C2 as stated: after the run the store holds an entry for H written in this
\* run if and only if some attempt of the run returned Success.
C2_Original ==
    Terminal =>
        ((\E i \in DOMAIN saves : Stored(file, ipAddress) = saves[i].port)
            <=> SomeSuccess)

\* C2 amended: after the run, savePortConfig has been called for H if and only if
\* the second attempt returned Success, the store differs from its initial
\* content only in that case, and a run whose first attempt succeeds has made no
\* call and left the store as it was.
C2_Amended ==
    Terminal =>
        /\ (saves # <<>> <=> (Len(attempts) = 2 /\ attempts[2].success))
        /\ (file # file0 => (Len(attempts) = 2 /\ attempts[2].success))
        /\ (attempts[1].success => (saves = <<>> /\ file = file0))

C2_Witness ==
    /\ pc = "succeeded"
    /\ Len(attempts) = 2
    /\ Len(saves) = 1
    /\ file0.kind = "object"
    /\ file # file0

\* C3: a run in which every attempt fails makes exactly two attempts, the second
\* on the port the operator supplied, ends in gaveUp and takes no further step;
\* no run ever starts a third attempt.
C3_BoundedRetry ==
    /\ started <= 2
    /\ Len(attempts) <= started
    /\ (Terminal /\ ~SomeSuccess) => pc = "gaveUp"
    /\ pc = "gaveUp" =>
         /\ started = 2
         /\ Len(attempts) = 2
         /\ ~SomeSuccess
         /\ attempts[2].port = JNum(parseInt(answer).n)
         /\ ~ENABLED Next

C3_Witness ==
    /\ pc = "gaveUp"
    /\ Len(attempts) = 2
    /\ rejected > 0
    /\ attempts[1].port = JNum(2200)

\* C4: once an attempt has ended with a launch error, the error has been
\* reported, no port prompt is open and no further attempt has been started.
C4_LaunchErrorStopsRun ==
    \A i \in DOMAIN attempts :
        attempts[i].ending = "error" =>
            /\ \E k \in DOMAIN log : log[k] = "launchError"
            /\ pc # "prompting"
            /\ started = i

\* C5: an attempt whose process closed with status 255 is a Failure, and one
\* whose process closed with any other status is a Success.
C5_Classification ==
    \A i \in DOMAIN attempts :
        attempts[i].ending = "close" =>
            (attempts[i].success <=> attempts[i].code # JNum(ConnectionErrorStatus))

C5_Witness ==
    /\ Len(attempts) = 2
    /\ attempts[1].code = JNum(ConnectionErrorStatus)
    /\ ~attempts[1].success
    /\ attempts[2].code = JNum(1)
    /\ attempts[2].success

\* the second attempt succeeded after a failed first one, and writeFileSync did
\* not fail
RetrySucceeded ==
    /\ pc = "succeeded"
    /\ Len(attempts) = 2
    /\ ~attempts[1].success
    /\ attempts[2].success
    /\ \A i \in DOMAIN saves : ~saves[i].failed

\* C6: when the first attempt failed, the operator supplied a valid port P and
\* the attempt on P succeeded, the store maps H to P once the run has finished.
C6_RetrySuccessIsStored ==
    RetrySucceeded =>
        /\ port = JNum(parseInt(answer).n)
        /\ Stored(file, ipAddress) = port

\* C7: after savePortConfig(H, P), loadPortConfigs() maps H to P and gives every
\* other host what it gave before the save.
C7_SaveLoadRoundTrip ==
    \A i \in DOMAIN saves :
        ~saves[i].failed =>
            /\ Stored(file, saves[i].ip) = saves[i].port
            /\ \A h \in Hosts \ {saves[i].ip} :
                 Stored(file, h) = Stored(saves[i].before, h)

\* the port of the first connection attempt
FirstPort == IF attempts # <<>> THEN attempts[1].port ELSE port

HasEntry(f, h) == f.kind = "object" /\ f.map[h] # Undefined

\* C8 as stated: the first attempt uses the store's entry for H when the store
\* has one, and 22 when it has none.
C8_Original ==
    started >= 1 =>
        FirstPort = IF HasEntry(file0, ipAddress)
                    THEN file0.map[ipAddress] ELSE JNum(22)

\* C8 amended: the first attempt uses the store's entry for H when the store has
\* one that is not falsy (0, for a number), and 22 when the store has no entry
\* for H or a falsy one.
C8_Amended ==
    started >= 1 =>
        FirstPort = IF HasEntry(file0, ipAddress) /\ file0.map[ipAddress] # JNum(0)
                    THEN file0.map[ipAddress] ELSE JNum(22)

C8_Witness ==
    /\ attempts # <<>>
    /\ HasEntry(file0, ipAddress)
    /\ attempts[1].port = JNum(2200)

ValidPort(v) == v.t = "num" /\ v.n > 0 /\ v.n < 65536

\* C9: every port handed to a connection attempt or to savePortConfig is an
\* integer strictly between 0 and 65536.
C9_PortsAreValid ==
    /\ started >= 1 => ValidPort(port)
    /\ \A i \in DOMAIN attempts : ValidPort(attempts[i].port)
    /\ \A i \in DOMAIN saves : ValidPort(saves[i].port)

\* a decimal integer numeral: an optional minus sign followed by decimal digits
\* and nothing else
IsIntegerText(s) ==
    LET d == IF s # <<>> /\ Head(s) = "-" THEN Tail(s) ELSE s
    IN  /\ d # <<>>
        /\ \A k \in DOMAIN d : DigitVal(d[k]) < 10

IntegerValue(s) ==
    IF Head(s) = "-" THEN 0 - DigitsValue(Tail(s), 10) ELSE DigitsValue(s, 10)

InPortRange(s) == IsIntegerText(s) /\ IntegerValue(s) > 0 /\ IntegerValue(s) < 65536

\* C10: the text the prompt accepted is an integer strictly between 0 and 65536
\* and the second attempt uses its value; a text the prompt rejected is not.
C10_PromptAcceptsExactlyPorts ==
    /\ started = 2 => (InPortRange(answer) /\ port = JNum(IntegerValue(answer)))
    /\ (pc = "prompting" /\ rejected > 0) => ~InPortRange(answer)

Logged(msg) == \E k \in DOMAIN log : log[k] = msg

\* C11: a run whose first attempt succeeds makes that one attempt only, never
\* opens the port prompt, calls no save, leaves the store as it was and is over.
C11_FirstSuccessIsQuiet ==
    (attempts # <<>> /\ attempts[1].success) =>
        /\ Len(attempts) = 1
        /\ started = 1
        /\ pc = "succeeded"
        /\ ~Logged("connectionFailed")
        /\ answer = <<>>
        /\ rejected = 0
        /\ saves = <<>>
        /\ file = file0
        /\ ~ENABLED Next

C11_Witness ==
    /\ pc = "succeeded"
    /\ Len(attempts) = 1
    /\ file0.kind = "object"
    /\ file0.map[ipAddress] = JNum(2200)
    /\ attempts[1].port = JNum(2200)
    /\ attempts[1].code = JNum(0)
    /\ file = file0

\* C12: a run that gave up has called no save and left the store exactly as it
\* was before the run.
C12_GaveUpLeavesStore ==
    pc = "gaveUp" =>
        /\ saves = <<>>
        /\ file = file0

C12_Witness ==
    /\ pc = "gaveUp"
    /\ file0.kind = "object"
    /\ file0.map[ipAddress] = JNum(2200)
    /\ attempts[2].port # JNum(2200)
    /\ file = file0

\* C13: with the store file absent, unreadable or unparsable, sshIntoServer does
\* not throw and the first attempt is made on port 22; the read or parse error
\* is logged.
C13_LoadFailsSoft ==
    (file0.kind \in {"absent", "unreadable"} /\ pc # "idle") =>
        /\ pc # "crashed"
        /\ started >= 1
        /\ FirstPort = JNum(22)
        /\ (file0.kind = "unreadable" <=> Logged("loadError"))

C13_Witness ==
    /\ file0.kind = "unreadable"
    /\ pc = "attempting"
    /\ started = 1
    /\ port = JNum(22)
    /\ Logged("loadError")

\* C14: when the write inside savePortConfig fails, the error is logged, the
\* run still ends in succeeded, and the store holds what it held before.
C14_SaveFailsSoft ==
    \A i \in DOMAIN saves :
        saves[i].failed =>
            /\ Logged("saveError")
            /\ pc = "succeeded"
            /\ saves[i].after = saves[i].before

\* C15: a finished run's last message reports how it ended: the end of the
\* session or the saved port after a success, a failure report after gaveUp.
C15_EveryEndIsReported ==
    /\ pc = "succeeded" => log[Len(log)] \in {"sessionEnded", "portSaved"}
    /\ pc = "gaveUp" => log[Len(log)] \in {"launchError", "connectionFailed", "gaveUp"}

\* number of spawned ssh processes that have not yet ended
Running == started - Len(attempts)

\* C17: at most one ssh process runs at a time; the second one is spawned only
\* after the first has ended and the prompt has accepted a valid port; the
\* prompt is never open while a process runs.
C17_OneAttemptAtATime ==
    /\ Running \in {0, 1}
    /\ (Running = 1 <=> pc = "attempting")
    /\ pc = "prompting" => Running = 0
    /\ started = 2 =>
         /\ Len(attempts) >= 1
         /\ validate(answer)
         /\ Logged("connectionFailed")

C17_Witness ==
    /\ pc = "attempting"
    /\ started = 2
    /\ Len(attempts) = 1
    /\ rejected > 0

\* C19: once "Port P has been saved ..." has been printed, the store maps H to P.
C19_SavedMessageIsTrue ==
    Logged("portSaved") => Stored(file, ipAddress) = port

\* C18: with every spawned process ending and the operator answering the
\* prompt with a valid port, a run that has started an attempt reaches succeeded
\* or gaveUp, and no step is taken from either.
C18_Terminates ==
    /\ (pc = "attempting") ~> Terminal
    /\ [][~Terminal]_vars

C18_Witness ==
    /\ Terminal
    /\ Len(attempts) = 2
    /\ rejected = 1
    /\ attempts[1].ending = "error"

\* both invocations have finished their savePortConfig without a write error,
\* for different hosts
BothSaved ==
    /\ Len(saves) = 1
    /\ ~saves[1].failed
    /\ other.pc = "done"
    /\ ~other.failed
    /\ other.ip # ipAddress

\* a lost update: the store was a mapping, both saves returned without error,
\* and one of the two entries is missing
C16_LostUpdate ==
    /\ BothSaved
    /\ file0.kind = "object"
    /\ \/ Stored(file, ipAddress) # saves[1].port
       \/ Stored(file, other.ip) # other.port

\* C16: when two invocations have saved ports for different hosts, the store
\* holds the entry of the one that wrote last, in every interleaving.
C16_LastWriterWins ==
    BothSaved =>
        IF other.after = 1
        THEN Stored(file, other.ip) = other.port
        ELSE Stored(file, ipAddress) = saves[1].port

\* C20: a save that returned without error leaves every other host's entry as
\* it was in the file when the save began, whatever sshIntoServer had read when
\* the run started.
C20_SaveReadsAtSaveTime ==
    \A i \in DOMAIN saves :
        ~saves[i].failed =>
            \A h \in Hosts \ {saves[i].ip} :
                Stored(saves[i].after, h) = Stored(saves[i].atLoad, h)

C20_Witness ==
    /\ Len(saves) = 1
    /\ ~saves[1].failed
    /\ other.pc = "done"
    /\ other.ip # ipAddress
    /\ Stored(file0, other.ip) # other.port
    /\ Stored(saves[1].atLoad, other.ip) = other.port
    /\ Stored(saves[1].after, other.ip) = other.port
    /\ Stored(saves[1].after, ipAddress) = saves[1].port

====
